---------------------------- MODULE Spec2Model ----------------------------
(***************************************************************************)
(* A model of src/main.py, the Naija AI Assistant API: module start-up     *)
(* (credentials and clients), the speech-to-text handler, the chat         *)
(* handler, the health check and the router's answer for a path that has   *)
(* no route.                                                               *)
(*                                                                         *)
(* A Python str is a sequence of Unicode code points and a bytes object a  *)
(* sequence of byte values; None is a value that is no str.                *)
(***************************************************************************)
EXTENDS Integers, Sequences, FiniteSets, TLC

(***************************************************************************)
(* Bounds of the model.                                                    *)
(***************************************************************************)
\* requests handled concurrently under Spec
NumRequests == 2
\* requests handled concurrently under SpecConc
NumConcurrent == 3
\* longest generated reply under SpecReply
MaxReplyLen == 3
\* longest language tag under SpecTag
MaxTagLen == 5

(***************************************************************************)
(* Strings.                                                                *)
(***************************************************************************)
\* the printable ASCII characters in code point order, from 35 to 91 and from
\* 97 to 126 (the double quote, the backslash and the grave accent are left out)
PRINTABLE_35_91 == "#$%&'()*+,-./0123456789:;<=>?@ABCDEFGHIJKLMNOPQRSTUVWXYZ["
PRINTABLE_97_126 == "abcdefghijklmnopqrstuvwxyz{|}~"

index(str, c) == CHOOSE i \in 1..Len(str) : SubSeq(str, i, i) = c

\* the code point of a printable ASCII character
ord(c) ==
    CASE c = " " -> 32
      [] c = "!" -> 33
      [] c = "]" -> 93
      [] c = "^" -> 94
      [] c = "_" -> 95
      [] \E i \in 1..Len(PRINTABLE_35_91) : SubSeq(PRINTABLE_35_91, i, i) = c
            -> 34 + index(PRINTABLE_35_91, c)
      [] OTHER -> 96 + index(PRINTABLE_97_126, c)

\* the Python str (or ASCII bytes) that a literal denotes
S(lit) == [i \in 1..Len(lit) |-> ord(SubSeq(lit, i, i))]

None == <<-1>>

\* Python truthiness of an Optional[str]
truthy(v) == v # None /\ v # <<>>

\* str.startswith
startswith(s, prefix) ==
    Len(s) >= Len(prefix) /\ SubSeq(s, 1, Len(prefix)) = prefix

\* dict.get(key, default)
dict_get(d, key, default) == IF key \in DOMAIN d THEN d[key] ELSE default

\* every sequence over alphabet of length at most n
RECURSIVE StringsUpTo(_, _)
StringsUpTo(alphabet, n) ==
    IF n = 0 THEN {<<>>}
    ELSE LET shorter == StringsUpTo(alphabet, n - 1)
         IN  shorter \cup {Append(s, c) : s \in {t \in shorter : Len(t) = n - 1},
                                          c \in alphabet}

(***************************************************************************)
(* Helper functions of the program.                                        *)
(***************************************************************************)
LANGUAGE_NAME_MAP ==
    (S("yo-NG") :> S("Yoruba")) @@ (S("ha-NG") :> S("Hausa")) @@
    (S("ig-NG") :> S("Igbo")) @@ (S("en-NG") :> S("English"))

HYPHEN == ord("-")

\* str.split(sep) for a one-character separator: the list of segments
RECURSIVE split(_, _)
split(s, sep) ==
    IF \E i \in 1..Len(s) : s[i] = sep
    THEN LET i == CHOOSE k \in 1..Len(s) :
                      s[k] = sep /\ \A j \in 1..(k - 1) : s[j] # sep
         IN  <<SubSeq(s, 1, i - 1)>> \o split(SubSeq(s, i + 1, Len(s)), sep)
    ELSE <<s>>

\* faulty variant: the first two characters of the tag, lang[:2]
get_spitch_language_code_first_two(lang) ==
    SubSeq(lang, 1, IF Len(lang) < 2 THEN Len(lang) ELSE 2)

\* lang.split('-')[0]
get_spitch_language_code(lang) == split(lang, HYPHEN)[1]

voice_map == (S("ha-NG") :> S("hasan")) @@ (S("ig-NG") :> S("ngozi"))
DEFAULT_VOICE == S("femi")
SHORT_CODE_VOICES == (S("ha") :> S("hasan")) @@ (S("ig") :> S("ngozi"))

\* faulty variant: the voice is looked up by the short language code
select_voice_by_short_code(language) ==
    dict_get(SHORT_CODE_VOICES, get_spitch_language_code(language), DEFAULT_VOICE)

\* voice_map.get(request.language, "femi")
select_voice(language) == dict_get(voice_map, language, DEFAULT_VOICE)

\* str.isspace for one character: Unicode white space
isspace(cp) ==
    cp \in (9..13) \cup (28..32) \cup {133, 160, 5760} \cup (8192..8202)
           \cup {8232, 8233, 8239, 8287, 12288}

\* str.strip(): leading and trailing white space removed
RECURSIVE lstrip(_)
lstrip(s) == IF s # <<>> /\ isspace(Head(s)) THEN lstrip(Tail(s)) ELSE s
RECURSIVE rstrip(_)
rstrip(s) ==
    IF s # <<>> /\ isspace(s[Len(s)]) THEN rstrip(SubSeq(s, 1, Len(s) - 1)) ELSE s
strip(s) == rstrip(lstrip(s))

(***************************************************************************)
(* urllib.parse.quote(string), with its defaults safe='/', encoding        *)
(* 'utf-8', errors 'strict'.                                               *)
(***************************************************************************)
\* str.encode('utf-8', 'strict') raises UnicodeEncodeError on a surrogate
utf8_encodable(s) == \A i \in 1..Len(s) : s[i] \notin 55296..57343

\* the UTF-8 bytes of one code point
utf8_char(cp) ==
    IF cp < 128 THEN <<cp>>
    ELSE IF cp < 2048 THEN <<192 + (cp \div 64), 128 + (cp % 64)>>
    ELSE IF cp < 65536
         THEN <<224 + (cp \div 4096), 128 + ((cp \div 64) % 64), 128 + (cp % 64)>>
         ELSE <<240 + (cp \div 262144), 128 + ((cp \div 4096) % 64),
                128 + ((cp \div 64) % 64), 128 + (cp % 64)>>

RECURSIVE utf8_encode(_)
utf8_encode(s) ==
    IF s = <<>> THEN <<>> ELSE utf8_char(Head(s)) \o utf8_encode(Tail(s))

HEX_DIGITS == S("0123456789ABCDEF")
PERCENT == ord("%")

\* '%{:02X}'.format(byte)
percent_hex(b) == <<PERCENT, HEX_DIGITS[(b \div 16) + 1], HEX_DIGITS[(b % 16) + 1]>>

\* the bytes quote() never escapes: letters, digits, "_.-~", and safe='/'
ALWAYS_SAFE ==
    {S("ABCDEFGHIJKLMNOPQRSTUVWXYZabcdefghijklmnopqrstuvwxyz0123456789_.-~")[i] :
        i \in 1..66}
SAFE == ALWAYS_SAFE \cup {ord("/")}
is_safe_byte(b) == b \in SAFE

SPACE_PLUS == [space |-> ord(" "), plus |-> ord("+")]

\* faulty variant: quote_plus(), which writes a space as '+'
quote_byte_plus(b) ==
    IF b = SPACE_PLUS.space THEN <<SPACE_PLUS.plus>>
    ELSE IF is_safe_byte(b) THEN <<b>> ELSE percent_hex(b)

quote_byte(b) == IF is_safe_byte(b) THEN <<b>> ELSE percent_hex(b)

RECURSIVE quote_from_bytes(_)
quote_from_bytes(bs) ==
    IF bs = <<>> THEN <<>> ELSE quote_byte(Head(bs)) \o quote_from_bytes(Tail(bs))

\* urllib.parse.quote(string), for a string that utf8_encodable
quote(string) == IF string = <<>> THEN string ELSE quote_from_bytes(utf8_encode(string))

(***************************************************************************)
(* The state of the process.                                               *)
(***************************************************************************)
VARIABLES
    env,            \* the process environment: SPITCH_API_KEY, GEMINI_API_KEY
    phase,          \* "importing" | "running" | "aborted"
    startup_error,  \* the message of the RuntimeError that ended the import, or ""
    spitch_api_key, \* module global
    gemini_api_key, \* module global
    spitch_client,  \* module global: the Spitch client, or NoClient
    genai_api_key,  \* the key genai.configure() installed, or None
    pc,             \* per request: "idle" | "stt_read" | "chat_generate" | "done"
    req,            \* per request: the HTTP request
    calls,          \* per request: its calls of collaborators and their outcomes
    resp,           \* per request: the HTTP response
    tag_in,         \* SpecTag: the language tag the helpers are applied to
    code_out,       \* SpecTag: get_spitch_language_code(tag_in), once applied
    voice_out       \* SpecTag: the selected voice for tag_in, once applied

config_vars == <<spitch_api_key, gemini_api_key, spitch_client, genai_api_key>>
request_vars == <<pc, req, calls, resp>>
tag_vars == <<tag_in, code_out, voice_out>>
vars == <<env, phase, startup_error, config_vars, request_vars, tag_vars>>

NoRequest == [method |-> "", path |-> ""]
\* the name spitch_client before the module binds it
NoClient == [api_key |-> None]
NoResponse == [status |-> 0, kind |-> "none"]

(***************************************************************************)
(* Start-up: the module's configuration section.                           *)
(***************************************************************************)
\* faulty variant: only an unset variable counts as missing
missing_credential_unset_only(v) == v = None

\* `if not spitch_api_key`, `if not gemini_api_key`
missing_credential(v) == ~truthy(v)

\* init is what the construction of the clients does: "ok", "spitch_raises"
\* (Spitch(...) raises) or "configure_raises" (genai.configure raises)
module_startup(init) ==
    /\ phase = "importing"
    /\ spitch_api_key' = env.SPITCH_API_KEY
    /\ gemini_api_key' = env.GEMINI_API_KEY
    /\ IF missing_credential(env.SPITCH_API_KEY)
       THEN /\ phase' = "aborted"
            /\ startup_error' = "SPITCH_API_KEY environment variable not set."
            /\ UNCHANGED <<spitch_client, genai_api_key>>
       ELSE IF missing_credential(env.GEMINI_API_KEY)
       THEN /\ phase' = "aborted"
            /\ startup_error' = "GEMINI_API_KEY environment variable not set."
            /\ UNCHANGED <<spitch_client, genai_api_key>>
       ELSE IF init = "spitch_raises"
       THEN /\ phase' = "aborted"
            /\ startup_error' = "Failed to initialize API clients: {e}"
            /\ UNCHANGED <<spitch_client, genai_api_key>>
       ELSE IF init = "configure_raises"
       THEN /\ phase' = "aborted"
            /\ startup_error' = "Failed to initialize API clients: {e}"
            /\ spitch_client' = [api_key |-> env.SPITCH_API_KEY]
            /\ UNCHANGED genai_api_key
       ELSE /\ phase' = "running"
            /\ startup_error' = ""
            /\ spitch_client' = [api_key |-> env.SPITCH_API_KEY]
            /\ genai_api_key' = env.GEMINI_API_KEY
    /\ UNCHANGED <<env, request_vars, tag_vars>>

(***************************************************************************)
(* Requests, responses and the collaborators' calls.                       *)
(***************************************************************************)
\* the router: the endpoint function of a request, or the router's own answer
route(q) ==
    LET routes == ("/speech-to-text/" :> [method |-> "POST", endpoint |-> "speech_to_text"])
               @@ ("/chat/" :> [method |-> "POST", endpoint |-> "chat"])
               @@ ("/" :> [method |-> "GET", endpoint |-> "read_root"])
    IN  IF q.path \notin DOMAIN routes THEN "404 Not Found"
        ELSE IF q.method # routes[q.path].method THEN "405 Method Not Allowed"
        ELSE routes[q.path].endpoint

HTTPException(status_code, detail) ==
    [status |-> status_code, kind |-> "error", detail |-> detail]

StreamingResponse(content, media_type, ai_response_text) ==
    [status |-> 200, kind |-> "stream", media_type |-> media_type,
     body |-> content, X_AI_Response_Text |-> ai_response_text]

JSONResponse(content) == [status |-> 200, kind |-> "json", body |-> content]

Call(svc, args) == [ev |-> "call", svc |-> svc, args |-> args]
Outcome(svc, outcome) == [ev |-> "outcome", svc |-> svc, outcome |-> outcome]

\* faulty variant: a module-level "current request" per endpoint, which every
\* arrival at that endpoint overwrites
request_of_latest(r) ==
    LET arrived == {o \in DOMAIN req : pc[o] # "idle" /\ req[o].path = req[r].path}
    IN  req[CHOOSE o \in arrived : \A u \in arrived : u <= o]

\* the request object bound to the handler's invocation
request_of(r) == req[r]

(***************************************************************************)
(* POST /speech-to-text/                                                   *)
(***************************************************************************)
AUDIO_PREFIX == S("audio/")

\* faulty variant: only a missing or empty content type is rejected
invalid_content_type_missing_only(content_type) == ~truthy(content_type)

\* `not file.content_type or not file.content_type.startswith("audio/")`
invalid_content_type(content_type) ==
    ~truthy(content_type) \/ ~startswith(content_type, AUDIO_PREFIX)

\* the handler up to `await file.read()`
post_speech_to_text(r, requests) ==
    /\ phase = "running"
    /\ pc[r] = "idle"
    /\ \E q \in requests :
          /\ route(q) = "speech_to_text"
          /\ req' = [req EXCEPT ![r] = q]
          /\ IF invalid_content_type(q.file.content_type)
             THEN /\ resp' = [resp EXCEPT ![r] = HTTPException(400,
                          [template |-> "Invalid or missing content type: {file.content_type}. Please upload an audio file.",
                           content_type |-> q.file.content_type])]
                  /\ pc' = [pc EXCEPT ![r] = "done"]
                  /\ UNCHANGED calls
             ELSE /\ calls' = [calls EXCEPT ![r] = Append(@, Call("file.read", <<>>))]
                  /\ pc' = [pc EXCEPT ![r] = "stt_read"]
                  /\ UNCHANGED resp
    /\ UNCHANGED <<env, phase, startup_error, config_vars, tag_vars>>

stt_error(e) ==
    HTTPException(500,
        [template |-> "Spitch API failed to process the audio file. Error: {e}",
         e |-> e])

\* the handler from the return of `await file.read()`: what it calls and
\* what it answers, given the outcome of the read and of the transcription
speech_to_text_rest(request, read, stt) ==
    IF read.kind = "raise"
    THEN [calls |-> <<Outcome("file.read", read)>>, resp |-> stt_error(read.msg)]
    ELSE LET content == request.file.content
             spitch_lang == get_spitch_language_code(request.language)
             transcribe == Call("speech.transcribe",
                                [client |-> spitch_client,
                                 content |-> content,
                                 language |-> spitch_lang,
                                 content_type |-> request.file.content_type])
         IN  [calls |-> <<Outcome("file.read", read), transcribe,
                          Outcome("speech.transcribe", stt)>>,
              resp |-> IF stt.kind = "raise" THEN stt_error(stt.msg)
                       ELSE JSONResponse([text |-> stt.text])]

\* reads, stts: what the read and the transcription may do
speech_to_text_resume(r, reads, stts) ==
    /\ pc[r] = "stt_read"
    /\ \E read \in reads, stt \in stts :
          LET rest == speech_to_text_rest(request_of(r), read, stt)
          IN  /\ calls' = [calls EXCEPT ![r] = @ \o rest.calls]
              /\ resp' = [resp EXCEPT ![r] = rest.resp]
    /\ pc' = [pc EXCEPT ![r] = "done"]
    /\ UNCHANGED <<env, phase, startup_error, config_vars, req, tag_vars>>

(***************************************************************************)
(* POST /chat/                                                             *)
(***************************************************************************)
DEFAULT_LANGUAGE_NAME == S("English")

\* the prompt: the fixed template with its two fields
prompt_for(request) ==
    [language_name |-> dict_get(LANGUAGE_NAME_MAP, request.language, DEFAULT_LANGUAGE_NAME),
     user_message |-> request.text]

\* the handler up to `await model.generate_content_async(prompt)`
post_chat(r, requests) ==
    /\ phase = "running"
    /\ pc[r] = "idle"
    /\ \E q \in requests :
          /\ route(q) = "chat"
          /\ req' = [req EXCEPT ![r] = q]
          /\ calls' = [calls EXCEPT ![r] = Append(@,
                          Call("generate_content_async",
                               [api_key |-> genai_api_key,
                                model |-> "gemini-2.5-flash",
                                prompt |-> prompt_for(q)]))]
    /\ pc' = [pc EXCEPT ![r] = "chat_generate"]
    /\ UNCHANGED <<env, phase, startup_error, config_vars, resp, tag_vars>>

chat_error(e) == HTTPException(500, [template |-> "{e}", e |-> e])

\* faulty variant: the reply is passed on as generated, without .strip()
ai_text_of_unstripped(gen) == gen.text

\* ai_text = gemini_response.text.strip()
ai_text_of(gen) == strip(gen.text)

\* faulty variant: synthesis is attempted with whatever came back, an empty text if
\* the generation failed
generation_failed_never(gen) == FALSE

\* the await raised, or reading gemini_response.text raised
generation_failed(gen) == gen.kind # "ok"

\* faulty variant: a failed synthesis is tried once more and its second answer used
synthesis_retry(text, language, voice, tts) ==
    LET generate == Call("speech.generate",
                         [client |-> spitch_client, text |-> text,
                          language |-> language, voice |-> voice])
    IN  IF tts.kind = "ok"
        THEN [calls |-> <<generate, Outcome("speech.generate", tts)>>, tts |-> tts]
        ELSE [calls |-> <<generate, Outcome("speech.generate", tts), generate,
                          Outcome("speech.generate", tts)>>,
              tts |-> tts]

\* spitch_client.speech.generate(...) and tts_response.read(): one call
synthesis(text, language, voice, tts) ==
    [calls |-> <<Call("speech.generate",
                      [client |-> spitch_client, text |-> text,
                       language |-> language, voice |-> voice]),
                 Outcome("speech.generate", tts)>>,
     tts |-> tts]

\* the handler from the return of the await: what it calls and what it
\* answers, given the outcome of the generation and of the synthesis
chat_rest(request, gen, tts) ==
    IF generation_failed(gen)
    THEN [calls |-> <<Outcome("generate_content_async", gen)>>,
          resp |-> chat_error(gen.msg)]
    ELSE LET ai_text == ai_text_of(gen)
             selected_voice == select_voice(request.language)
             spitch_lang == get_spitch_language_code(request.language)
             done == synthesis(ai_text, spitch_lang, selected_voice, tts)
         IN  [calls |-> <<Outcome("generate_content_async", gen)>> \o done.calls,
              resp |-> IF done.tts.kind # "ok" THEN chat_error(done.tts.msg)
                       ELSE IF ~utf8_encodable(ai_text)
                       THEN chat_error("'utf-8' codec can't encode character: surrogates not allowed")
                       ELSE StreamingResponse(done.tts.audio, "audio/wav",
                                              quote(ai_text))]

\* gens, ttss: what the generation and the synthesis may do
chat_resume(r, gens, ttss) ==
    /\ pc[r] = "chat_generate"
    /\ \E gen \in gens, tts \in ttss :
          LET rest == chat_rest(request_of(r), gen, tts)
          IN  /\ calls' = [calls EXCEPT ![r] = @ \o rest.calls]
              /\ resp' = [resp EXCEPT ![r] = rest.resp]
    /\ pc' = [pc EXCEPT ![r] = "done"]
    /\ UNCHANGED <<env, phase, startup_error, config_vars, req, tag_vars>>

(***************************************************************************)
(* GET / and the requests that match no route.                             *)
(***************************************************************************)
read_root(r, requests) ==
    /\ phase = "running"
    /\ pc[r] = "idle"
    /\ \E q \in requests :
          /\ route(q) = "read_root"
          /\ req' = [req EXCEPT ![r] = q]
    /\ resp' = [resp EXCEPT ![r] = JSONResponse(
                    [status |-> "ok", message |-> "Naija AI Assistant is running!"])]
    /\ pc' = [pc EXCEPT ![r] = "done"]
    /\ UNCHANGED <<env, phase, startup_error, config_vars, calls, tag_vars>>

\* no endpoint function runs: the router answers
no_route(r, requests) ==
    /\ phase = "running"
    /\ pc[r] = "idle"
    /\ \E q \in requests :
          /\ route(q) \in {"404 Not Found", "405 Method Not Allowed"}
          /\ req' = [req EXCEPT ![r] = q]
          /\ resp' = [resp EXCEPT ![r] =
                          HTTPException(IF route(q) = "404 Not Found" THEN 404 ELSE 405,
                                        [template |-> route(q)])]
    /\ pc' = [pc EXCEPT ![r] = "done"]
    /\ UNCHANGED <<env, phase, startup_error, config_vars, calls, tag_vars>>

(***************************************************************************)
(* The helper functions applied to one language tag (SpecTag).             *)
(***************************************************************************)
apply_get_spitch_language_code ==
    /\ code_out = None
    /\ code_out' = get_spitch_language_code(tag_in)
    /\ UNCHANGED <<env, phase, startup_error, config_vars, request_vars,
                   tag_in, voice_out>>

apply_select_voice ==
    /\ voice_out = None
    /\ voice_out' = select_voice(tag_in)
    /\ UNCHANGED <<env, phase, startup_error, config_vars, request_vars,
                   tag_in, code_out>>

\* a later call, with another tag
next_tag(t) ==
    /\ code_out # None
    /\ voice_out # None
    /\ tag_in' = t
    /\ code_out' = None
    /\ voice_out' = None
    /\ UNCHANGED <<env, phase, startup_error, config_vars, request_vars>>

(***************************************************************************)
(* Inputs.                                                                 *)
(***************************************************************************)
Credentials == {None, <<>>, S("key")}
Environments == [SPITCH_API_KEY : Credentials, GEMINI_API_KEY : Credentials]
GoodEnvironment == [SPITCH_API_KEY |-> S("sk"), GEMINI_API_KEY |-> S("gk")]
ClientInits == {"ok", "spitch_raises", "configure_raises"}

Languages == {S("ha-NG"), S("ig-NG"), S("yo-NG"), S("ha-GH"), S("pcm")}

\* "Ba de ni?" with its two accented letters, inside white space
BaDeNi == S(" B") \o <<225>> \o S(" d") \o <<233>> \o S(" ni?") \o <<10>>

ChatRequest(text, language) ==
    [method |-> "POST", path |-> "/chat/", text |-> text, language |-> language]

UploadRequest(content_type, language) ==
    [method |-> "POST", path |-> "/speech-to-text/", language |-> language,
     file |-> [content_type |-> content_type, content |-> S("RIFF")]]

ContentTypes ==
    {None, <<>>, S("text/plain"), S("image/png"), S("audio"), S("Audio/wav"),
     S("audio/wav"), S("audio/")}

OtherRequests ==
    {[method |-> "GET", path |-> "/"],
     [method |-> "GET", path |-> "/chat/"],
     [method |-> "POST", path |-> "/text-to-speech/", text |-> S("hello"),
      language |-> S("en-NG"), voice |-> S("femi")]}

Requests ==
    {ChatRequest(S("How far?"), l) : l \in Languages}
    \cup {UploadRequest(ct, S("yo-NG")) : ct \in ContentTypes}
    \cup OtherRequests

GenOk(text) == [kind |-> "ok", text |-> text, msg |-> ""]
GenFailures ==
    {[kind |-> "raise", text |-> <<>>, msg |-> "429 quota exceeded"],
     [kind |-> "text_raises", text |-> <<>>, msg |-> "response.text: no valid Part"]}
GenOutcomes == {GenOk(BaDeNi)} \cup GenFailures

TtsOk(audio) == [kind |-> "ok", audio |-> audio, msg |-> ""]
TtsFailures ==
    {[kind |-> "raise", audio |-> <<>>, msg |-> "400 invalid language"],
     [kind |-> "read_raises", audio |-> <<>>, msg |-> "connection reset"]}
TtsOutcomes == {TtsOk(S("WAVDATA"))} \cup TtsFailures

ReadOutcomes == {[kind |-> "ok", msg |-> ""], [kind |-> "raise", msg |-> "read failed"]}
SttOutcomes ==
    {[kind |-> "ok", text |-> S("how far"), msg |-> ""],
     [kind |-> "raise", text |-> <<>>, msg |-> "422 malformed audio"]}

(***************************************************************************)
(* Spec: the process from its import on, NumRequests requests in flight.   *)
(***************************************************************************)
InitWith(environments, ids, tags) ==
    /\ env \in environments
    /\ phase = "importing"
    /\ startup_error = ""
    /\ spitch_api_key = None
    /\ gemini_api_key = None
    /\ spitch_client = NoClient
    /\ genai_api_key = None
    /\ pc = [r \in ids |-> "idle"]
    /\ req = [r \in ids |-> NoRequest]
    /\ calls = [r \in ids |-> <<>>]
    /\ resp = [r \in ids |-> NoResponse]
    /\ tag_in \in tags
    /\ code_out = None
    /\ voice_out = None

Init == InitWith(Environments, 1..NumRequests, {<<>>})

Next ==
    \/ \E init \in ClientInits : module_startup(init)
    \/ \E r \in 1..NumRequests : post_speech_to_text(r, Requests)
    \/ \E r \in 1..NumRequests : speech_to_text_resume(r, ReadOutcomes, SttOutcomes)
    \/ \E r \in 1..NumRequests : post_chat(r, Requests)
    \/ \E r \in 1..NumRequests : chat_resume(r, GenOutcomes, TtsOutcomes)
    \/ \E r \in 1..NumRequests : read_root(r, Requests)
    \/ \E r \in 1..NumRequests : no_route(r, Requests)

Spec == Init /\ [][Next]_vars

(***************************************************************************)
(* SpecReply: one chat request, every reply text up to MaxReplyLen over an *)
(* alphabet of white space (space, line feed), '%', a digit, a letter that *)
(* is a hex digit, '/', two-, three- and four-byte characters and a lone    *)
(* surrogate.                                                              *)
(***************************************************************************)
ReplyAlphabet == {S(" %4A/")[i] : i \in 1..5} \cup {10, 233, 8364, 128512, 55357}
ReplyTexts == StringsUpTo(ReplyAlphabet, MaxReplyLen)
ReplyRequests == {ChatRequest(S("How far?"), l) : l \in {S("ha-NG"), S("pcm")}}
ReplyOutcomes == {GenOk(t) : t \in ReplyTexts} \cup GenFailures

InitReply == InitWith({GoodEnvironment}, {1}, {<<>>})

NextReply ==
    \/ \E init \in ClientInits : module_startup(init)
    \/ post_chat(1, ReplyRequests)
    \/ chat_resume(1, ReplyOutcomes, TtsOutcomes)

SpecReply == InitReply /\ [][NextReply]_vars

(***************************************************************************)
(* SpecTag: the two helper functions on every tag up to MaxTagLen over     *)
(* the letters of "ha-NG", and on the tags the documentation names.        *)
(***************************************************************************)
TagAlphabet == {S("ha-NG")[i] : i \in 1..5}
NamedTags ==
    {S("ha-NG"), S("ig-NG"), S("yo-NG"), S("en-NG"), S("xx-YY"), S("ha-GH"),
     S("pcm"), S("a-b-c"), S("ig"), S("-NG"), S("yo_NG")}
Tags == StringsUpTo(TagAlphabet, MaxTagLen) \cup NamedTags

InitTag == InitWith({GoodEnvironment}, {}, Tags)

NextTag ==
    \/ apply_get_spitch_language_code
    \/ apply_select_voice
    \/ \E t \in NamedTags : next_tag(t)

SpecTag == InitTag /\ [][NextTag]_vars

(***************************************************************************)
(* SpecConc: NumConcurrent requests in flight, interleaved at their awaits. *)
(***************************************************************************)
ConcRequests ==
    {ChatRequest(S("How far?"), S("ha-NG")), ChatRequest(S("How far?"), S("ig-NG")),
     UploadRequest(S("audio/wav"), S("yo-NG")), UploadRequest(S("audio/wav"), S("ig-NG"))}
ConcGenOutcomes == {GenOk(S(" ok ")), [kind |-> "raise", text |-> <<>>, msg |-> "503"]}
ConcReadOutcomes == {[kind |-> "ok", msg |-> ""]}

InitConc == InitWith({GoodEnvironment}, 1..NumConcurrent, {<<>>})

NextConc ==
    \/ \E init \in ClientInits : module_startup(init)
    \/ \E r \in 1..NumConcurrent : post_speech_to_text(r, ConcRequests)
    \/ \E r \in 1..NumConcurrent :
          speech_to_text_resume(r, ConcReadOutcomes, SttOutcomes)
    \/ \E r \in 1..NumConcurrent : post_chat(r, ConcRequests)
    \/ \E r \in 1..NumConcurrent : chat_resume(r, ConcGenOutcomes, TtsOutcomes)

SpecConc == InitConc /\ [][NextConc]_vars

(***************************************************************************)
(* What the properties speak of.                                           *)
(***************************************************************************)
Ids == DOMAIN pc

IsCall(e, svc) == e.ev = "call" /\ e.svc = svc
IsOutcome(e, svc) == e.ev = "outcome" /\ e.svc = svc
Failed(e) == e.ev = "outcome" /\ e.outcome.kind # "ok"

ExternalServices == {"generate_content_async", "speech.generate", "speech.transcribe"}

\* the positions of the calls of svc in a request's log
CallsOf(r, svc) == {j \in 1..Len(calls[r]) : IsCall(calls[r][j], svc)}
OutcomesOf(r, svc) == {j \in 1..Len(calls[r]) : IsOutcome(calls[r][j], svc)}

IsChat(r) == req[r].method = "POST" /\ req[r].path = "/chat/"
IsUpload(r) == req[r].method = "POST" /\ req[r].path = "/speech-to-text/"
ChatSucceeded(r) == pc[r] = "done" /\ IsChat(r) /\ resp[r].kind = "stream"

\* t is s without its leading and trailing white space
Trimmed(s, t) ==
    \E i \in 1..(Len(s) + 1), j \in 0..Len(s) :
        /\ t = SubSeq(s, i, j)
        /\ \A k \in 1..(i - 1) : isspace(s[k])
        /\ \A k \in (j + 1)..Len(s) : isspace(s[k])
        /\ t # <<>> => ~isspace(s[i]) /\ ~isspace(s[j])
        /\ t = <<>> => \A k \in 1..Len(s) : isspace(s[k])

HasHyphen(tag) == \E i \in 1..Len(tag) : tag[i] = HYPHEN

\* code is the part of tag before its first '-', or tag itself if it has none
ShortCode(tag, code) ==
    IF HasHyphen(tag)
    THEN \E i \in 1..Len(tag) :
            /\ tag[i] = HYPHEN
            /\ \A j \in 1..(i - 1) : tag[j] # HYPHEN
            /\ code = SubSeq(tag, 1, i - 1)
    ELSE code = tag

Hasan == S("hasan")
Ngozi == S("ngozi")
Femi == S("femi")
HaNG == S("ha-NG")
IgNG == S("ig-NG")

\* the voice the documentation gives a tag
VoiceFor(tag) == IF tag = HaNG THEN Hasan ELSE IF tag = IgNG THEN Ngozi ELSE Femi

(***************************************************************************)
(* Percent-decoding, as a client does it: %XX is a byte, the bytes are     *)
(* UTF-8.                                                                  *)
(***************************************************************************)
HEX_LOWER == S("0123456789abcdef")
IsHex(c) == \E n \in 1..16 : HEX_DIGITS[n] = c \/ HEX_LOWER[n] = c
HexValue(c) == (CHOOSE n \in 1..16 : HEX_DIGITS[n] = c \/ HEX_LOWER[n] = c) - 1

RECURSIVE unquote_to_bytes(_)
unquote_to_bytes(s) ==
    IF s = <<>> THEN <<>>
    ELSE IF s[1] = PERCENT /\ Len(s) >= 3 /\ IsHex(s[2]) /\ IsHex(s[3])
    THEN <<16 * HexValue(s[2]) + HexValue(s[3])>>
             \o unquote_to_bytes(SubSeq(s, 4, Len(s)))
    ELSE utf8_char(s[1]) \o unquote_to_bytes(Tail(s))

IsContinuation(bs, k) == Len(bs) >= k /\ bs[k] \in 128..191

\* U+FFFD stands for a byte that starts no valid sequence
RECURSIVE utf8_decode(_)
utf8_decode(bs) ==
    IF bs = <<>> THEN <<>>
    ELSE IF bs[1] < 128 THEN <<bs[1]>> \o utf8_decode(Tail(bs))
    ELSE IF bs[1] \in 194..223 /\ IsContinuation(bs, 2)
    THEN <<(bs[1] - 192) * 64 + (bs[2] - 128)>>
             \o utf8_decode(SubSeq(bs, 3, Len(bs)))
    ELSE IF bs[1] \in 224..239 /\ IsContinuation(bs, 2) /\ IsContinuation(bs, 3)
    THEN <<(bs[1] - 224) * 4096 + (bs[2] - 128) * 64 + (bs[3] - 128)>>
             \o utf8_decode(SubSeq(bs, 4, Len(bs)))
    ELSE IF /\ bs[1] \in 240..244
            /\ IsContinuation(bs, 2) /\ IsContinuation(bs, 3) /\ IsContinuation(bs, 4)
    THEN <<(bs[1] - 240) * 262144 + (bs[2] - 128) * 4096 + (bs[3] - 128) * 64
             + (bs[4] - 128)>> \o utf8_decode(SubSeq(bs, 5, Len(bs)))
    ELSE <<65533>> \o utf8_decode(Tail(bs))

unquote(s) == utf8_decode(unquote_to_bytes(s))

(***************************************************************************)
(* C1. In a chat request the synthesis service is called only after the    *)
(* generation call of that request has returned a reply whose text could   *)
(* be read; after a failed generation it is never called.                  *)
(***************************************************************************)
C1_SynthesisOnlyAfterGeneration ==
    \A r \in Ids :
        /\ \A j \in CallsOf(r, "speech.generate") :
              \E i \in 1..(j - 1), c \in 1..(j - 1) :
                  /\ c < i
                  /\ IsCall(calls[r][c], "generate_content_async")
                  /\ IsOutcome(calls[r][i], "generate_content_async")
                  /\ calls[r][i].outcome.kind = "ok"
        /\ (\E i \in OutcomesOf(r, "generate_content_async") : Failed(calls[r][i]))
              => CallsOf(r, "speech.generate") = {}

\* one request saw the generation fail on reading the text, another was synthesized
C1_Witness ==
    \E r, u \in Ids :
        /\ pc[r] = "done"
        /\ \E i \in OutcomesOf(r, "generate_content_async") :
              calls[r][i].outcome.kind = "text_raises"
        /\ CallsOf(r, "speech.generate") = {}
        /\ pc[u] = "done"
        /\ CallsOf(u, "speech.generate") # {}

(***************************************************************************)
(* C2. In chat and speech-to-text a failed call of an external service     *)
(* ends the request with one HTTP 500 whose detail carries the upstream    *)
(* message; no call follows the failure, and a chat request ends with      *)
(* audio and reply text or with an error only.                             *)
(***************************************************************************)
C2_UpstreamFailureIsOne500 ==
    \A r \in Ids :
        /\ \A i \in 1..Len(calls[r]) :
              (Failed(calls[r][i]) /\ calls[r][i].svc \in ExternalServices) =>
                  /\ i = Len(calls[r])
                  /\ pc[r] = "done"
                  /\ resp[r].kind = "error"
                  /\ resp[r].status = 500
                  /\ resp[r].detail.e = calls[r][i].outcome.msg
                  /\ Cardinality(CallsOf(r, calls[r][i].svc)) = 1
        /\ (pc[r] = "done" /\ IsChat(r)) =>
              \/ /\ resp[r].kind = "stream"
                 /\ resp[r].status = 200
                 /\ \A i \in 1..Len(calls[r]) : ~Failed(calls[r][i])
              \/ /\ resp[r].kind = "error"
                 /\ resp[r].status = 500

\* a chat request whose synthesis failed and an upload whose transcription failed
C2_Witness ==
    \E r, u \in Ids :
        /\ pc[r] = "done" /\ IsChat(r)
        /\ \E i \in OutcomesOf(r, "speech.generate") : Failed(calls[r][i])
        /\ resp[r].status = 500
        /\ pc[u] = "done" /\ IsUpload(u)
        /\ \E i \in OutcomesOf(u, "speech.transcribe") : Failed(calls[u][i])
        /\ resp[u].status = 500

BeginsWithAudio(ct) ==
    /\ ct # None
    /\ Len(ct) >= 6
    /\ ct[1] = ord("a") /\ ct[2] = ord("u") /\ ct[3] = ord("d")
    /\ ct[4] = ord("i") /\ ct[5] = ord("o") /\ ct[6] = ord("/")

(***************************************************************************)
(* C3. Speech-to-text answers an upload whose content type is missing,     *)
(* empty or does not begin with "audio/" with HTTP 400, without reading    *)
(* the upload and without calling the transcription service; the           *)
(* transcription service is called only for a content type that begins     *)
(* with "audio/".                                                          *)
(***************************************************************************)
C3_NonAudioUploadRejected ==
    \A r \in Ids :
        (pc[r] # "idle" /\ IsUpload(r)) =>
            /\ ~BeginsWithAudio(req[r].file.content_type) =>
                  /\ pc[r] = "done"
                  /\ resp[r].kind = "error"
                  /\ resp[r].status = 400
                  /\ calls[r] = <<>>
            /\ \A j \in CallsOf(r, "speech.transcribe") :
                  /\ BeginsWithAudio(req[r].file.content_type)
                  /\ calls[r][j].args.content_type = req[r].file.content_type

\* an image upload was refused while an audio upload was transcribed
C3_Witness ==
    \E r, u \in Ids :
        /\ IsUpload(r)
        /\ req[r].file.content_type = S("image/png")
        /\ resp[r].status = 400
        /\ calls[r] = <<>>
        /\ IsUpload(u)
        /\ CallsOf(u, "speech.transcribe") # {}

Present(credential) == credential # None /\ credential # <<>>

ClientsBuilt ==
    /\ spitch_client = [api_key |-> env.SPITCH_API_KEY]
    /\ genai_api_key = env.GEMINI_API_KEY

(***************************************************************************)
(* C4. The process does not start when a credential is unset or empty or   *)
(* when the construction of a client raises; a request is handled only in  *)
(* a process that found both credentials and built both clients.           *)
(***************************************************************************)
C4_StartupFailsFast ==
    /\ (phase # "importing"
            /\ ~(Present(env.SPITCH_API_KEY) /\ Present(env.GEMINI_API_KEY)))
          => (phase = "aborted" /\ startup_error # "")
    /\ (phase # "importing" /\ ~ClientsBuilt)
          => (phase = "aborted" /\ startup_error # "")
    /\ phase = "aborted" => \A r \in Ids : pc[r] = "idle"
    /\ (\E r \in Ids : pc[r] # "idle") =>
          /\ phase = "running"
          /\ Present(env.SPITCH_API_KEY)
          /\ Present(env.GEMINI_API_KEY)
          /\ ClientsBuilt

\* the import ended on an empty text-generation credential
C4_Witness ==
    /\ phase = "aborted"
    /\ Present(env.SPITCH_API_KEY)
    /\ env.GEMINI_API_KEY = <<>>
    /\ startup_error = "GEMINI_API_KEY environment variable not set."

(***************************************************************************)
(* C5. POST /text-to-speech/ with {text, language, voice} answers with     *)
(* the audio bytes of one synthesis call, media type audio/wav.            *)
(***************************************************************************)
C5_TextToSpeechServed ==
    \A r \in Ids :
        (pc[r] = "done" /\ req[r].method = "POST" /\ req[r].path = "/text-to-speech/")
            => /\ resp[r].status \in {200, 500}
               /\ \E j \in CallsOf(r, "speech.generate") :
                     /\ calls[r][j].args.text = req[r].text
                     /\ calls[r][j].args.voice = req[r].voice
                     /\ resp[r].status = 200 =>
                           /\ resp[r].kind = "stream"
                           /\ resp[r].media_type = "audio/wav"
                           /\ resp[r].body = calls[r][j + 1].outcome.audio

(***************************************************************************)
(* C6. A successful chat request with tag T and reply R calls synthesis    *)
(* exactly once, with R trimmed, the part of T before its first '-' and    *)
(* the voice of T, and answers with exactly the bytes synthesis returned,  *)
(* media type audio/wav.                                                   *)
(***************************************************************************)
C6_ChatSynthesizesTrimmedReply ==
    \A r \in Ids :
        ChatSucceeded(r) =>
            /\ Cardinality(CallsOf(r, "speech.generate")) = 1
            /\ Cardinality(OutcomesOf(r, "generate_content_async")) = 1
            /\ \E g \in OutcomesOf(r, "generate_content_async"),
                  j \in CallsOf(r, "speech.generate") :
                  /\ Trimmed(calls[r][g].outcome.text, calls[r][j].args.text)
                  /\ ShortCode(req[r].language, calls[r][j].args.language)
                  /\ calls[r][j].args.voice = VoiceFor(req[r].language)
                  /\ IsOutcome(calls[r][j + 1], "speech.generate")
                  /\ resp[r].body = calls[r][j + 1].outcome.audio
            /\ resp[r].status = 200
            /\ resp[r].media_type = "audio/wav"

\* "ha-NG", reply " Ba de ni?\n" with its accents: voice hasan, language ha
C6_Witness ==
    \E r \in Ids :
        /\ ChatSucceeded(r)
        /\ req[r].language = HaNG
        /\ \E g \in OutcomesOf(r, "generate_content_async") :
              calls[r][g].outcome.text = BaDeNi
        /\ \E j \in CallsOf(r, "speech.generate") :
              /\ calls[r][j].args.voice = Hasan
              /\ calls[r][j].args.language = S("ha")
              /\ calls[r][j].args.text = SubSeq(BaDeNi, 2, Len(BaDeNi) - 1)
        /\ resp[r].body = S("WAVDATA")

(***************************************************************************)
(* C7. In a successful chat request, percent-decoding the header           *)
(* X-AI-Response-Text gives exactly the trimmed reply, the text that was   *)
(* passed to synthesis, whatever characters the reply holds.               *)
(***************************************************************************)
C7_HeaderRoundTrips ==
    \A r \in Ids :
        ChatSucceeded(r) =>
            \E g \in OutcomesOf(r, "generate_content_async"),
               j \in CallsOf(r, "speech.generate") :
                /\ Trimmed(calls[r][g].outcome.text, unquote(resp[r].X_AI_Response_Text))
                /\ unquote(resp[r].X_AI_Response_Text) = calls[r][j].args.text
                /\ \A k \in 1..Len(resp[r].X_AI_Response_Text) :
                      resp[r].X_AI_Response_Text[k] \in SAFE \cup {PERCENT}

\* a reply of an accented letter, a line feed and a space around a '%'
C7_Witness ==
    \E r \in Ids :
        /\ ChatSucceeded(r)
        /\ \E g \in OutcomesOf(r, "generate_content_async") :
              calls[r][g].outcome.text \in
                  {<<233, 10, PERCENT>>, <<PERCENT, 32, 8364>>, <<32, 128512, 10>>}
        /\ Len(resp[r].X_AI_Response_Text) >= 6

(***************************************************************************)
(* C8. The language code normalizer returns, for a tag with a '-', the     *)
(* part before the first '-', and any other tag, the empty one too,        *)
(* unchanged.                                                              *)
(***************************************************************************)
C8_ShortCodeIsPrefix ==
    code_out # None =>
        /\ ShortCode(tag_in, code_out)
        /\ HasHyphen(tag_in) => Len(code_out) < Len(tag_in) /\ ~HasHyphen(code_out)
        /\ ~HasHyphen(tag_in) => code_out = tag_in

\* a tag with two hyphens gave its first segment
C8_Witness ==
    /\ tag_in = S("a-b-c")
    /\ code_out = S("a")

(***************************************************************************)
(* C9. The voice is a function of the whole tag: "ha-NG" gives "hasan",    *)
(* "ig-NG" gives "ngozi", every other tag "femi", whatever was asked       *)
(* before.                                                                 *)
(***************************************************************************)
C9_VoiceOfTag == voice_out # None => voice_out = VoiceFor(tag_in)

\* a mapped short code with another region gave the default voice
C9_Witness ==
    /\ tag_in = S("ha-GH")
    /\ voice_out = Femi

OwnOutcomes(r) == [j \in OutcomesOf(r, "generate_content_async")
                          \cup OutcomesOf(r, "speech.generate")
                          \cup OutcomesOf(r, "speech.transcribe")
                          \cup OutcomesOf(r, "file.read") |-> calls[r][j].outcome]

(***************************************************************************)
(* C10. Requests are independent: whatever the interleaving, two requests  *)
(* with the same input and the same outcomes of their own calls have made  *)
(* the same calls and have the same response; the start-up configuration   *)
(* stays what the import made it.                                          *)
(***************************************************************************)
C10_RequestsIndependent ==
    /\ \A r, u \in Ids :
          (req[r] = req[u] /\ pc[r] = pc[u] /\ OwnOutcomes(r) = OwnOutcomes(u))
              => (calls[r] = calls[u] /\ resp[r] = resp[u])
    /\ phase = "running" =>
          /\ spitch_api_key = env.SPITCH_API_KEY
          /\ gemini_api_key = env.GEMINI_API_KEY
          /\ spitch_client = [api_key |-> env.SPITCH_API_KEY]
          /\ genai_api_key = env.GEMINI_API_KEY

\* two chat requests with the same input and outcomes ended alike while a
\* third, with another language, was awaiting its generation
C10_Witness ==
    \E r, u, w \in Ids :
        /\ r # u
        /\ ChatSucceeded(r) /\ ChatSucceeded(u)
        /\ req[r] = req[u]
        /\ resp[r] = resp[u]
        /\ pc[w] = "chat_generate"
        /\ req[w].language # req[r].language

=============================================================================
